---- MODULE Spec2Model ----
(***************************************************************************)
(* Model of the gin response-cache middleware of src/cache.go: the         *)
(* closure returned by Cache (lines 45-109), the reply procedure           *)
(* respondWithCache, the capture writer responseCacheWriter, the snapshot  *)
(* responseCache, and the singleflight group the closure coalesces with.   *)
(*                                                                         *)
(* Every request is one goroutine.  A request's steps are the points where *)
(* it touches state shared with other requests: the store, the snapshot    *)
(* pool, the singleflight map, and the capture writer that the group hands *)
(* to every caller of one execution.                                       *)
(***************************************************************************)
EXTENDS Integers, Sequences, FiniteSets, TLC

\* ------------------------------------------------------------------ bounds
NReq == 2

Reqs == 1..NReq
\* the request targets of the built-in key functions: one path, two queries
Paths == {"/widgets"}
Queries == {"x=1", "x=2"}
URLs == [path : Paths, query : Queries]
NoURL == [path |-> "", query |-> ""]

\* http.Request.RequestURI: the path and the query as the client sent them
RequestURI(u) == u.path \o "?" \o u.query

\* lines 113-120: the key function of CacheByURI
CacheByURI(u) == << RequestURI(u), TRUE >>

\* lines 123-130: the key function of CacheByPath
CacheByPath(u) == << u.path, TRUE >>

\* the keys a caller's own key function returns, and all keys
CustomKeys == {"k1", "k2"}
Keys == CustomKeys \cup {CacheByURI(u)[1] : u \in URLs} \cup {CacheByPath(u)[1] : u \in URLs}
HeaderNames == {"X"}
NoCall == 0
NoObj == 0
NoWriter == 0

\* a byte of a bytes.Buffer that lies within its length and was not copied
\* into yet: the capture writer's buffer is new (line 71), its room is zeroed
Unwritten == 0

\* the calls a wrapped writer may receive before the capture is left alone
MaxWrites == 3

\* the writers a capture may wrap, and what a handler may pass to Write and
\* to WriteString
Writers == {1, 2}
Chunks == {<< >>, << 1 >>}
Strings == {"bc"}
None == [Status |-> 0, Header |-> [h \in HeaderNames |-> <<>>], Data |-> <<>>]

\* gin's response writer starts with status 200, no header and nothing written
EmptyHeader == [h \in HeaderNames |-> <<>>]
NewSink == [status |-> 200, header |-> EmptyHeader, body |-> <<>>]

\* the snapshots New (lines 176-180) can make: a request takes one snapshot
ObjIds == 1 .. NReq

\* what the downstream handler may write (c.Next()): a status, header values
\* and a non-empty body
Outputs ==
    { [status |-> 200, header |-> [h \in HeaderNames |-> <<"a", "b">>], body |-> <<1>>],
      [status |-> 404, header |-> [h \in HeaderNames |-> <<"c">>],      body |-> <<2>>] }

VARIABLES
    options,     \* Options: DisableSingleFlight, SingleflightForgetTime, Logger
    pc,          \* position of each request's goroutine in the closure
    cacheKey,    \* the key the key function returned for the request
    sink,        \* the real response writer of each request (what its client gets)
    aborted,     \* c.Abort() was called for the request
    body,        \* responseCacheWriter.body of the request's own cacheWriter
    respCache,   \* the request's local respCache (line 75), once filled; Data as it last read
    store,       \* CacheStore: key -> stored snapshot, or None
    m,           \* singleflight Group.m: key -> call (named by its leader), or NoCall
    call,        \* singleflight call of each leader: state and dups
    timers,      \* the forget goroutines (lines 85-88) that are still sleeping
    fired,       \* the forget goroutines that have called Forget (line 87)
    got,         \* the call whose result sfGroup.Do returned to the request
    shared,      \* the third result of sfGroup.Do
    lookup,      \* outcome of the request's CacheStore.Get
    produced,    \* what the handler wrote when it ran for the request
    nextCalls,   \* number of c.Next() calls made by the request
    setCalls,    \* number of CacheStore.Set calls made by the request
    hitValue,    \* the snapshot the request's CacheStore.Get returned on a hit
    hitOf,       \* history: the request whose Set had written the entry that was hit
    storedBy,    \* history: the request whose Set wrote the key's current entry
    wrote,       \* outcome of the c.Writer.Write of the request's respondWithCache
    sets,        \* number of Header().Set calls the request's replay has made as a leader
    pool,        \* responseCachePool: the pooled snapshots that are free
    objs,        \* the contents of each pooled snapshot
    held,        \* the pooled snapshot the request took and has not put back
    handed,      \* history: the snapshot as getResponseCache returned it
    gets,        \* number of getResponseCache calls made by the request
    puts,        \* number of putResponseCache calls made by the request
    logs,        \* the Printf calls the logger has received: request and site
    handler,     \* which constructor made the middleware: Cache, CacheByURI, CacheByPath
    url,         \* the target of the request, when a built-in key function read it
    cw,          \* one responseCacheWriter on its own: body and ResponseWriter
    wire,        \* the Write and WriteString calls each wrapped writer received
    calls,       \* history: the calls made on cw since its last reset
    last         \* history: the last operation on cw, its argument and its error

vars == << options, pc, cacheKey, sink, aborted, body, respCache, store, m, call,
           timers, fired, got, shared, lookup, produced, nextCalls, setCalls, hitValue,
           hitOf, storedBy, wrote, sets, pool, objs, held, handed, gets, puts, logs, handler, url,
           cw, wire, calls, last >>

\* ------------------------------------------------------- pure operations

\* http.Header.Set(k, v): replaces the values of k by the single value v
HeaderSet(h, k, v) == [h EXCEPT ![k] = <<v>>]

\* lines 215-217: for _, v := range vals { c.Writer.Header().Set(k, v) }
RECURSIVE SetEach(_, _, _)
SetEach(h, k, vals) ==
    IF vals = <<>> THEN h
    ELSE SetEach(HeaderSet(h, k, Head(vals)), k, Tail(vals))

\* lines 214-218: the outer loop over the names of the snapshot's header
RECURSIVE ReplayHeader(_, _, _)
ReplayHeader(h, snapHeader, names) ==
    IF names = {} THEN h
    ELSE LET k == CHOOSE n \in names : TRUE
         IN  ReplayHeader(SetEach(h, k, snapHeader[k]), snapHeader, names \ {k})

\* gin ResponseWriter.WriteHeader: the status changes only before the first write
WriteHeader(s, code) ==
    IF code > 0 /\ s.status # code /\ s.body = <<>>
    THEN [s EXCEPT !.status = code]
    ELSE s

fillWithoutBody(writerSink, writerBody) ==
    [Status |-> writerSink.status, Header |-> writerSink.header, Data |-> <<>>]

\* responseCache.fill, lines 143-151: status and header are read through the
\* capture writer's embedded ResponseWriter, the body from its buffer
fill(writerSink, writerBody) ==
    [Status |-> writerSink.status, Header |-> writerSink.header, Data |-> writerBody]

\* lines 214-217 for the values of one name: the calls Header().Set(k, v)
RECURSIVE Tag(_, _)
Tag(k, vals) ==
    IF vals = << >> THEN << >> ELSE << << k, Head(vals) >> >> \o Tag(k, Tail(vals))

\* lines 214-218: the calls Header().Set(k, v) of a replay, in order
RECURSIVE Pairs(_, _)
Pairs(snapHeader, names) ==
    IF names = {} THEN << >>
    ELSE LET k == CHOOSE n \in names : TRUE
         IN  Tag(k, snapHeader[k]) \o Pairs(snapHeader, names \ {k})

\* the header map after the first n of these calls
RECURSIVE SetFirst(_, _, _)
SetFirst(h, p, n) ==
    IF n = 0 THEN h ELSE HeaderSet(SetFirst(h, p, n - 1), p[n][1], p[n][2])

\* line 220: the Write of the bytes d on the real sink returned an error
\* after n bytes
WriteFailed(d, n) == n < Len(d)

\* the err of line 220 as the request saw it
WriteResult(d, n) == IF WriteFailed(d, n) THEN "error" ELSE "ok"

\* lines 213-218 on the real sink under c.Writer: the status and the header
\* values
ReplyHeader(s, rc) ==
    LET s1 == WriteHeader(s, rc.Status)
    IN  [s1 EXCEPT !.header = ReplayHeader(s1.header, rc.Header, HeaderNames)]

\* lines 161 and 220: the real sink takes the first n of the bytes d
SinkWrite(s, d, n) == [s EXCEPT !.body = s.body \o SubSeq(d, 1, n)]

respondWithoutStatus(s, rc, n) ==
    SinkWrite([s EXCEPT !.header = ReplayHeader(s.header, rc.Header, HeaderNames)],
              rc.Data, n)

\* respondWithCache, lines 213-220, on a writer that is the real sink (the
\* hit path): the status, the header values, and the n bytes of the body the
\* sink took (all of them unless the Write of line 220 failed)
respondWithCache(s, rc, n) == SinkWrite(ReplyHeader(s, rc), rc.Data, n)

resetNothing(c) == c

\* lines 138-141: responseCache.reset
reset(c) == [c EXCEPT !.Data = <<>>, !.Header = EmptyHeader]

GettableAny(p, h) == ObjIds

\* line 196, responseCachePool.Get(): sync.Pool hands out any snapshot that
\* was put back, or the one New makes (lines 176-180) although snapshots are
\* free; the snapshots New has not made yet are interchangeable, and the
\* one of least number is made
Gettable(p, h) ==
    LET made == p \cup {h[r] : r \in Reqs}
        unmade == {i \in ObjIds : i \notin made}
    IN  p \cup {i \in unmade : \A j \in unmade : i <= j}

\* line 205: responseCachePool.Put(c)
putResponseCache(p, c) == p \cup {c}

HasNoLogger(opts) == FALSE

\* lines 64 and 105: options.Logger != nil
HasLogger(opts) == opts.Logger

\* lines 63-67, 104-108 and 220-224: Printf is called for a failure when a
\* logger is set
Printf(l, opts, failed, r, site) ==
    IF failed /\ HasLogger(opts) THEN l \cup {<< r, site >>} ELSE l

\* []byte(s)
Bytes(s) == CASE s = "" -> << >> [] s = "bc" -> << 98, 99 >>

BufferKeep(buf, b) == buf

\* lines 160 and 165: bytes.Buffer.Write / WriteString, appends to the buffer
BufferWrite(buf, b) == buf \o b

\* bytes.Buffer.Write before its copy: the buffer is n bytes longer
RECURSIVE BufferGrow(_, _)
BufferGrow(buf, n) == IF n = 0 THEN buf ELSE BufferGrow(buf \o << Unwritten >>, n - 1)

AbortNothing(a, r) == a

\* line 227: c.Abort() of request r
Abort(a, r) == [a EXCEPT ![r] = TRUE]

\* gin, once the closure has returned: the stages after it still run unless
\* the closure called c.Next() itself or called c.Abort(); the number of
\* handler runs this adds to the n runs the closure made
ChainAfterReturn(ab, n) == IF ~ab /\ n = 0 THEN 1 ELSE 0

\* the handler writing output o through c.Writer
HandlerWrite(s, o) ==
    [status |-> o.status, header |-> o.header, body |-> s.body \o o.body]

UseSingleFlightAlways(opts) == TRUE

\* line 77: whether the write path goes through the singleflight group
UseSingleFlight(opts) == ~opts.DisableSingleFlight

ForgetAlways(opts) == TRUE

\* line 84: whether fn starts the forget goroutine
ForgetEnabled(opts) == opts.SingleflightForgetTime > 0

InFlightNever(g, k) == NoCall

\* singleflight Do: the call registered for the key (c, ok := g.m[key])
InFlight(g, k) == g[k]

\* singleflight: Do's third result for the caller that ran fn (c.dups > 0)
LeaderShared(dups) == dups > 0

ForgetNothing(g, k) == g

ForgetEveryKey(g, k) == [kk \in DOMAIN g |-> NoCall]

\* lines 85-88: the forget goroutine started by the fn of leader r; its
\* closure holds the key the leader called Do with
Timer(r, k) == [by |-> r, key |-> k]

\* the forget goroutines there can be: those of the requests that are
\* followed and those of earlier requests
Timers == {Timer(r, k) : r \in Reqs \cup {NoCall}, k \in Keys}

\* singleflight Group.Forget(key): delete(g.m, key)
Forget(g, k) == [g EXCEPT ![k] = NoCall]

\* singleflight doCall on return of fn: the call leaves the map if it is
\* still the one registered for the key
Unregister(g, k, c) == IF g[k] = c THEN [g EXCEPT ![k] = NoCall] ELSE g


\* ------------------------------------------------------------------ Init
\* the state of the middleware and of the requests before any request runs:
\* newCacheHelper (lines 188-194) makes an empty group and an empty pool
AtRest ==
    /\ pc = [r \in Reqs |-> "idle"]
    /\ cacheKey = [r \in Reqs |-> "k1"]
    /\ sink = [r \in Reqs |-> NewSink]
    /\ aborted = [r \in Reqs |-> FALSE]
    /\ body = [r \in Reqs |-> <<>>]
    /\ respCache = [r \in Reqs |-> None]
    /\ m = [k \in Keys |-> NoCall]
    /\ call = [r \in Reqs |-> [state |-> "none", dups |-> 0]]
    /\ fired = {}
    /\ got = [r \in Reqs |-> NoCall]
    /\ shared = [r \in Reqs |-> FALSE]
    /\ lookup = [r \in Reqs |-> "none"]
    /\ produced = [r \in Reqs |-> None]
    /\ nextCalls = [r \in Reqs |-> 0]
    /\ setCalls = [r \in Reqs |-> 0]
    /\ hitValue = [r \in Reqs |-> None]
    /\ hitOf = [r \in Reqs |-> NoCall]
    /\ sets = [r \in Reqs |-> 0]
    /\ storedBy = [k \in Keys |-> NoCall]
    /\ wrote = [r \in Reqs |-> "none"]
    /\ pool = {}
    /\ objs = [i \in ObjIds |-> None]
    /\ held = [r \in Reqs |-> NoObj]
    /\ handed = [r \in Reqs |-> None]
    /\ gets = [r \in Reqs |-> 0]
    /\ puts = [r \in Reqs |-> 0]
    /\ logs = {}
    /\ url = [r \in Reqs |-> NoURL]
    /\ cw = [body |-> << >>, ResponseWriter |-> NoWriter]
    /\ wire = [s \in Writers |-> << >>]
    /\ calls = << >>
    /\ last = [op |-> "new", arg |-> NoWriter, err |-> FALSE]

\* no forget goroutine has been started
Idle ==
    /\ AtRest
    /\ timers = {}

\* the middleware is made over a store that holds nothing
Fresh ==
    /\ Idle
    /\ store = [k \in Keys |-> None]

\* Cache(handler, options) with no logger
Init ==
    /\ options \in [DisableSingleFlight : BOOLEAN, SingleflightForgetTime : {0, 1},
                     Logger : {FALSE}]
    /\ handler = "Cache"
    /\ Fresh

\* --------------------------------------------------------------- actions

\* the variables of the capture writer that is followed on its own
writerVars == << cw, wire, calls, last >>

\* the variables of the snapshot pool
poolVars == << pool, objs, held, handed, gets, puts >>

\* line 46: the keys the key function may return for a request; the keys are
\* interchangeable, and k1 names the key of request 1
KeysOf(r) == IF r = 1 THEN {"k1"} ELSE CustomKeys

\* the process has not been stopped by the Go runtime
Alive == \A q \in Reqs : pc[q] # "killed"

\* the leaders of key k whose call is in the given state
CallsOf(k, st) == {q \in Reqs : got[q] = q /\ cacheKey[q] = k /\ call[q].state = st}

\* lines 46-48: the key function returns needCache = false and c.Next() is
\* entered with the request's own writer
BypassBegin(r) ==
    /\ pc[r] = "idle"
    /\ Alive
    /\ lookup' = [lookup EXCEPT ![r] = "bypass"]
    /\ nextCalls' = [nextCalls EXCEPT ![r] = @ + 1]
    /\ pc' = [pc EXCEPT ![r] = "bypass"]
    /\ UNCHANGED << options, handler, cacheKey, sink, aborted, body, respCache, store, m,
                    call, timers, fired, got, shared, produced, setCalls, hitValue, hitOf, storedBy,
                    wrote, sets, logs, url, poolVars, writerVars >>

BypassEndCaptured(r) ==
    /\ pc[r] = "bypass"
    /\ \E o \in Outputs :
        /\ sink' = [sink EXCEPT ![r] = HandlerWrite(sink[r], o)]
        /\ body' = [body EXCEPT ![r] = body[r] \o o.body]
        /\ produced' = [produced EXCEPT ![r] =
                            [Status |-> o.status, Header |-> o.header, Data |-> o.body]]
    /\ pc' = [pc EXCEPT ![r] = "done"]
    /\ UNCHANGED << options, handler, cacheKey, aborted, respCache, store, m, call, timers, fired,
                    got, shared, lookup, nextCalls, setCalls, hitValue, hitOf, storedBy,
                    wrote, sets, logs, url, poolVars, writerVars >>

\* lines 48-49: the handler has written to the request's own writer, return
BypassEnd(r) ==
    /\ pc[r] = "bypass"
    /\ \E o \in Outputs :
        /\ sink' = [sink EXCEPT ![r] = HandlerWrite(sink[r], o)]
        /\ produced' = [produced EXCEPT ![r] =
                            [Status |-> o.status, Header |-> o.header, Data |-> o.body]]
    /\ pc' = [pc EXCEPT ![r] = "done"]
    /\ UNCHANGED << options, handler, cacheKey, aborted, body, respCache, store, m, call,
                    timers, fired, got, shared, lookup, nextCalls, setCalls, hitValue, hitOf,
                    storedBy, wrote, sets, logs, url, poolVars, writerVars >>

\* lines 46-55 with key k: the key function returns needCache = true,
\* getResponseCache takes a snapshot from the pool and resets it, and the
\* put is deferred
GetSnapshot(r, k) ==
    /\ pc[r] = "idle"
    /\ Alive
    /\ cacheKey' = [cacheKey EXCEPT ![r] = k]
    /\ \E c \in Gettable(pool, held) :
        /\ objs' = [objs EXCEPT ![c] = reset(objs[c])]
        /\ handed' = [handed EXCEPT ![r] = reset(objs[c])]
        /\ pool' = pool \ {c}
        /\ held' = [held EXCEPT ![r] = c]
    /\ gets' = [gets EXCEPT ![r] = @ + 1]
    /\ pc' = [pc EXCEPT ![r] = "lookup"]
    /\ UNCHANGED << options, handler, sink, aborted, body, respCache, store, m, call, timers, fired,
                    got, shared, lookup, produced, nextCalls, setCalls, hitValue, hitOf,
                    storedBy, wrote, sets, logs, puts, writerVars >>

Begin(r) ==
    /\ \E k \in KeysOf(r) : GetSnapshot(r, k)
    /\ UNCHANGED url

\* line 57, hit: CacheStore.Get returns nil and has decoded the entry into
\* the pooled snapshot
LookupHit(r) ==
    /\ pc[r] = "lookup"
    /\ store[cacheKey[r]] # None
    /\ hitValue' = [hitValue EXCEPT ![r] = store[cacheKey[r]]]
    /\ hitOf' = [hitOf EXCEPT ![r] = storedBy[cacheKey[r]]]
    /\ objs' = [objs EXCEPT ![held[r]] = store[cacheKey[r]]]
    /\ lookup' = [lookup EXCEPT ![r] = "hit"]
    /\ pc' = [pc EXCEPT ![r] = "reply"]
    /\ UNCHANGED << options, handler, cacheKey, sink, aborted, body, respCache, store, m,
                    call, timers, fired, got, shared, produced, nextCalls, setCalls, storedBy, wrote,
                    sets, logs, url, pool, held, handed, gets, puts, writerVars >>

\* lines 58-60: respondWithCache with the decoded snapshot on the request's
\* own writer, whose Write takes n bytes (all of them unless it fails), and
\* c.Abort()
HitReply(r) ==
    /\ pc[r] = "reply"
    /\ \E n \in 0..Len(objs[held[r]].Data) :
        /\ sink' = [sink EXCEPT ![r] = respondWithCache(sink[r], objs[held[r]], n)]
        /\ wrote' = [wrote EXCEPT ![r] = WriteResult(objs[held[r]].Data, n)]
        /\ logs' = Printf(logs, options, WriteFailed(objs[held[r]].Data, n), r, "write")
    /\ aborted' = Abort(aborted, r)
    /\ pc' = [pc EXCEPT ![r] = "return"]
    /\ UNCHANGED << options, handler, cacheKey, body, respCache, store, m, call, timers, fired, got,
                    shared, lookup, produced, nextCalls, setCalls, hitValue, hitOf, storedBy,
                    sets, url, poolVars, writerVars >>

\* lines 57-73, no hit: CacheStore.Get returns ErrCacheMiss (key absent) or
\* another error (any key), which is logged; the writer is swapped for a
\* fresh capture writer
LookupMiss(r) ==
    /\ pc[r] = "lookup"
    /\ \E res \in {"miss", "error"} :
        /\ res = "miss" => store[cacheKey[r]] = None
        /\ lookup' = [lookup EXCEPT ![r] = res]
        /\ logs' = Printf(logs, options, res = "error", r, "get")
    /\ pc' = [pc EXCEPT ![r] = "missed"]
    /\ UNCHANGED << options, handler, cacheKey, sink, aborted, body, respCache, store, m,
                    call, timers, fired, got, shared, produced, nextCalls, setCalls, hitValue, hitOf,
                    storedBy, wrote, sets, url, poolVars, writerVars >>

\* line 78, DisableSingleFlight: c.Next() is entered inline
DirectBegin(r) ==
    /\ pc[r] = "missed"
    /\ ~UseSingleFlight(options)
    /\ nextCalls' = [nextCalls EXCEPT ![r] = @ + 1]
    /\ pc' = [pc EXCEPT ![r] = "running"]
    /\ UNCHANGED << options, handler, cacheKey, sink, aborted, body, respCache, store, m,
                    call, timers, fired, got, shared, lookup, produced, setCalls, hitValue, hitOf,
                    storedBy, wrote, sets, logs, url, poolVars, writerVars >>

\* lines 78-80: the handler returns, the snapshot is filled from the capture
DirectEnd(r) ==
    /\ pc[r] = "running"
    /\ got[r] = NoCall
    /\ \E o \in Outputs :
        LET s == HandlerWrite(sink[r], o)
            b == body[r] \o o.body
        IN  /\ sink' = [sink EXCEPT ![r] = s]
            /\ body' = [body EXCEPT ![r] = b]
            /\ produced' = [produced EXCEPT ![r] =
                                [Status |-> o.status, Header |-> o.header, Data |-> o.body]]
            /\ respCache' = [respCache EXCEPT ![r] = fill(s, b)]
    /\ pc' = [pc EXCEPT ![r] = "toset"]
    /\ UNCHANGED << options, handler, cacheKey, aborted, store, m, call, timers, fired, got, shared,
                    lookup, nextCalls, setCalls, hitValue, hitOf, storedBy, wrote, sets, logs,
                    url, poolVars, writerVars >>

\* line 83, sfGroup.Do with no call registered for the key: the caller
\* registers its call and runs fn: lines 84-91, the forget goroutine is
\* started when a forget time is set, and c.Next() is entered
DoLead(r) ==
    /\ pc[r] = "missed"
    /\ UseSingleFlight(options)
    /\ InFlight(m, cacheKey[r]) = NoCall
    /\ m' = [m EXCEPT ![cacheKey[r]] = r]
    /\ call' = [call EXCEPT ![r] = [state |-> "running", dups |-> 0]]
    /\ got' = [got EXCEPT ![r] = r]
    /\ timers' = IF ForgetEnabled(options)
                 THEN timers \cup {Timer(r, cacheKey[r])} ELSE timers
    /\ nextCalls' = [nextCalls EXCEPT ![r] = @ + 1]
    /\ pc' = [pc EXCEPT ![r] = "running"]
    /\ UNCHANGED << options, handler, cacheKey, sink, aborted, body, respCache, store, fired, shared,
                    lookup, produced, setCalls, hitValue, hitOf, storedBy, wrote, sets, logs,
                    url, poolVars, writerVars >>

\* line 83, sfGroup.Do with a call registered for the key: dups++, wait
DoJoin(r) ==
    /\ pc[r] = "missed"
    /\ UseSingleFlight(options)
    /\ InFlight(m, cacheKey[r]) # NoCall
    /\ LET c == InFlight(m, cacheKey[r])
       IN  /\ call' = [call EXCEPT ![c].dups = @ + 1]
           /\ got' = [got EXCEPT ![r] = c]
    /\ pc' = [pc EXCEPT ![r] = "waiting"]
    /\ UNCHANGED << options, handler, cacheKey, sink, aborted, body, respCache, store, m,
                    timers, fired, shared, lookup, produced, nextCalls, setCalls, hitValue, hitOf,
                    storedBy, wrote, sets, logs, url, poolVars, writerVars >>

\* lines 91-94 and the end of doCall: the handler returns, fn returns the
\* capture writer, the waiters are released, the call leaves the map
LeaderEnd(r) ==
    /\ pc[r] = "running"
    /\ got[r] = r
    /\ \E o \in Outputs :
        /\ sink' = [sink EXCEPT ![r] = HandlerWrite(sink[r], o)]
        /\ body' = [body EXCEPT ![r] = body[r] \o o.body]
        /\ produced' = [produced EXCEPT ![r] =
                            [Status |-> o.status, Header |-> o.header, Data |-> o.body]]
    /\ call' = [call EXCEPT ![r].state = "done"]
    /\ m' = Unregister(m, cacheKey[r], r)
    /\ shared' = [shared EXCEPT ![r] = LeaderShared(call[r].dups)]
    /\ pc' = [pc EXCEPT ![r] = "returned"]
    /\ UNCHANGED << options, handler, cacheKey, aborted, respCache, store, timers, fired, got,
                    lookup, nextCalls, setCalls, hitValue, hitOf, storedBy, wrote, sets, logs,
                    url, poolVars, writerVars >>

\* lines 86-87: a forget goroutine wakes up and calls sfGroup.Forget(cacheKey)
ForgetFire(t) ==
    /\ t \in timers
    /\ Alive
    /\ timers' = timers \ {t}
    /\ fired' = fired \cup {t}
    /\ m' = Forget(m, t.key)
    /\ UNCHANGED << options, handler, pc, cacheKey, sink, aborted, body, respCache, store,
                    call, got, shared, lookup, produced, nextCalls, setCalls, hitValue, hitOf,
                    storedBy, wrote, sets, logs, url, poolVars, writerVars >>

\* The caller that ran fn and got shared = true replays on c.Writer, which
\* is its own capture writer (line 73): its followers read that writer's
\* header map and buffer at the same time, without synchronisation.  Every
\* write the followers can see is a step of its own.

\* lines 96-99 and 213 for the caller that ran fn: fill from its own capture
\* writer; when Do reported shared, respondWithCache begins: WriteHeader
\* with the status the writer has already
LeaderFill(r) ==
    /\ pc[r] = "returned"
    /\ LET rc == fill(sink[r], body[r])
       IN  /\ respCache' = [respCache EXCEPT ![r] = rc]
           /\ sink' = [sink EXCEPT ![r] = IF shared[r] THEN WriteHeader(@, rc.Status) ELSE @]
           /\ pc' = [pc EXCEPT ![r] =
                        IF ~shared[r] THEN "toset"
                        ELSE IF Pairs(rc.Header, HeaderNames) = << >> THEN "write"
                        ELSE "replay"]
    /\ UNCHANGED << options, handler, cacheKey, aborted, body, store, m, call, timers, fired, got,
                    shared, lookup, produced, nextCalls, setCalls, hitValue, hitOf, storedBy,
                    wrote, sets, logs, url, poolVars, writerVars >>

\* line 216, once: c.Writer.Header().Set(k, v) on the header map of the
\* leader's writer
LeaderSet(r) ==
    /\ pc[r] = "replay"
    /\ LET p == Pairs(respCache[r].Header, HeaderNames)
           i == sets[r] + 1
       IN  /\ sink' = [sink EXCEPT ![r].header = HeaderSet(@, p[i][1], p[i][2])]
           /\ sets' = [sets EXCEPT ![r] = i]
           /\ pc' = [pc EXCEPT ![r] = IF i = Len(p) THEN "write" ELSE "replay"]
    /\ UNCHANGED << options, handler, cacheKey, aborted, body, respCache, store, m, call,
                    timers, fired, got, shared, lookup, produced, nextCalls, setCalls, hitValue,
                    hitOf, storedBy, wrote, logs, url, poolVars, writerVars >>

\* lines 220 and 160, first half: bytes.Buffer.Write lengthens the buffer of
\* the capture writer by the length of the snapshot's body
LeaderGrow(r) ==
    /\ pc[r] = "write"
    /\ body' = [body EXCEPT ![r] = BufferGrow(@, Len(respCache[r].Data))]
    /\ pc' = [pc EXCEPT ![r] = "copy"]
    /\ UNCHANGED << options, handler, cacheKey, sink, aborted, respCache, store, m, call,
                    timers, fired, got, shared, lookup, produced, nextCalls, setCalls, hitValue,
                    hitOf, storedBy, wrote, sets, logs, url, poolVars, writerVars >>

\* line 160, second half: the bytes are copied into the new room
LeaderCopy(r) ==
    /\ pc[r] = "copy"
    /\ body' = [body EXCEPT ![r] =
                    BufferWrite(SubSeq(@, 1, Len(@) - Len(respCache[r].Data)),
                                respCache[r].Data)]
    /\ pc' = [pc EXCEPT ![r] = "send"]
    /\ UNCHANGED << options, handler, cacheKey, sink, aborted, respCache, store, m, call,
                    timers, fired, got, shared, lookup, produced, nextCalls, setCalls, hitValue,
                    hitOf, storedBy, wrote, sets, logs, url, poolVars, writerVars >>

\* lines 161 and 220-227: the Write on the leader's real sink returns after
\* n bytes (all of them unless it fails), a failure is logged, c.Abort()
LeaderSent(r) ==
    /\ pc[r] = "send"
    /\ \E n \in 0..Len(respCache[r].Data) :
        /\ sink' = [sink EXCEPT ![r] = SinkWrite(@, respCache[r].Data, n)]
        /\ wrote' = [wrote EXCEPT ![r] = WriteResult(respCache[r].Data, n)]
        /\ logs' = Printf(logs, options, WriteFailed(respCache[r].Data, n), r, "write")
    /\ aborted' = Abort(aborted, r)
    /\ pc' = [pc EXCEPT ![r] = "toset"]
    /\ UNCHANGED << options, handler, cacheKey, body, respCache, store, m, call, timers, fired, got,
                    shared, lookup, produced, nextCalls, setCalls, hitValue, hitOf, storedBy,
                    sets, url, poolVars, writerVars >>

\* the leader l is inside respondWithCache: what it has written to its
\* writer since Do returned is not ordered with the reads of its followers.
\* Its client write (line 161) is a system call; once that has returned the
\* followers read what the writer holds.
Racing(l) == pc[l] \in {"replay", "write", "copy", "send"}

\* the values a follower may now read under header name k of the writer of
\* leader l: the current one, or while the leader is racing an earlier one
HeaderSeen(l, k) ==
    IF Racing(l)
    THEN {SetFirst(produced[l].Header, Pairs(respCache[l].Header, HeaderNames), i)[k] :
            i \in 0..sets[l]}
    ELSE {sink[l].header[k]}

\* the lengths a follower may now read for the buffer of leader l
LenSeen(l) ==
    IF Racing(l) THEN {Len(produced[l].Data), Len(body[l])} ELSE {Len(body[l])}

\* the values a follower may now read in byte i of the buffer of leader l,
\* having read was there before: the handler's bytes were written before Do
\* returned; a replayed byte it has read stays; one it has not read yet is
\* there or, while the leader is racing, still missing
ByteSeen(l, i, was) ==
    IF i <= Len(produced[l].Data) THEN {body[l][i]}
    ELSE IF was # Unwritten THEN {was}
    ELSE IF Racing(l) THEN {Unwritten, body[l][i]}
    ELSE {body[l][i]}

\* what a follower may now read through a slice of the buffer of leader l
\* (line 145 makes Data such a slice) in which it read was before
RECURSIVE DataSeen(_, _, _)
DataSeen(l, was, i) ==
    IF i > Len(was) THEN {<< >>}
    ELSE {<< b >> \o t : b \in ByteSeen(l, i, was[i]), t \in DataSeen(l, was, i + 1)}

\* a slice of n bytes of which nothing was read
RECURSIVE Unread(_)
Unread(n) == IF n = 0 THEN << >> ELSE << Unwritten >> \o Unread(n - 1)

\* what fill (lines 144-150) may read from the capture writer of leader l
Readable(l) ==
    {[Status |-> sink[l].status, Header |-> h, Data |-> d] :
        h \in {g \in [HeaderNames -> UNION {HeaderSeen(l, k) : k \in HeaderNames}] :
                 \A k \in HeaderNames : g[k] \in HeaderSeen(l, k)},
        d \in UNION {DataSeen(l, Unread(n), 1) : n \in LenSeen(l)}}

\* what request r may now read in the Data of its snapshot: for a follower
\* Data is a slice of its leader's buffer
View(r) ==
    IF got[r] # NoCall /\ got[r] # r
    THEN DataSeen(got[r], respCache[r].Data, 1)
    ELSE {respCache[r].Data}

\* lines 83 and 96-97 for a waiting caller: Do returns the leader's capture
\* writer with shared = true once the call is done, and the snapshot is
\* filled from that writer
FollowerFill(r) ==
    /\ pc[r] = "waiting"
    /\ call[got[r]].state = "done"
    /\ \E rc \in Readable(got[r]) : respCache' = [respCache EXCEPT ![r] = rc]
    /\ shared' = [shared EXCEPT ![r] = TRUE]
    /\ pc' = [pc EXCEPT ![r] = "filled"]
    /\ UNCHANGED << options, handler, cacheKey, sink, aborted, body, store, m, call, timers, fired,
                    got, lookup, produced, nextCalls, setCalls, hitValue, hitOf, storedBy,
                    wrote, sets, logs, url, poolVars, writerVars >>

\* lines 99, 213-218 and 160 for a follower: the status and the header
\* values go to its own writer, and the bytes it now reads in the snapshot
\* go to the buffer of its own capture writer
FollowerReplay(r) ==
    /\ pc[r] = "filled"
    /\ \E d \in View(r) :
        /\ sink' = [sink EXCEPT ![r] = ReplyHeader(@, respCache[r])]
        /\ body' = [body EXCEPT ![r] = BufferWrite(@, d)]
        /\ respCache' = [respCache EXCEPT ![r].Data = d]
    /\ pc' = [pc EXCEPT ![r] = "sending"]
    /\ UNCHANGED << options, handler, cacheKey, aborted, store, m, call, timers, fired, got, shared,
                    lookup, produced, nextCalls, setCalls, hitValue, hitOf, storedBy, wrote,
                    sets, logs, url, poolVars, writerVars >>

\* lines 161 and 220-227 for a follower: the Write on its real sink sends
\* the bytes it now reads in the snapshot and returns after n of them (all
\* unless it fails), a failure is logged, c.Abort()
FollowerSent(r) ==
    /\ pc[r] = "sending"
    /\ \E d \in View(r) :
        \E n \in 0..Len(d) :
            /\ sink' = [sink EXCEPT ![r] = SinkWrite(@, d, n)]
            /\ wrote' = [wrote EXCEPT ![r] = WriteResult(d, n)]
            /\ logs' = Printf(logs, options, WriteFailed(d, n), r, "write")
            /\ respCache' = [respCache EXCEPT ![r].Data = d]
    /\ aborted' = Abort(aborted, r)
    /\ pc' = [pc EXCEPT ![r] = "toset"]
    /\ UNCHANGED << options, handler, cacheKey, body, store, m, call, timers, fired, got, shared,
                    lookup, produced, nextCalls, setCalls, hitValue, hitOf, storedBy, sets,
                    url, poolVars, writerVars >>

\* line 216 of a leader while one of its followers ranges over the same
\* header map in fill (lines 148-150): one outcome is the Go runtime's fatal
\* "concurrent map iteration and map write", which ends the process: no
\* request in flight and no forget goroutine takes another step.
Crash(l, f) ==
    /\ pc[l] = "replay"
    /\ pc[f] = "waiting" /\ got[f] = l /\ call[l].state = "done"
    /\ pc' = [r \in Reqs |-> IF pc[r] \in {"idle", "done"} THEN pc[r] ELSE "killed"]
    /\ UNCHANGED << options, handler, cacheKey, sink, aborted, body, respCache, store, m,
                    call, timers, fired, got, shared, lookup, produced, nextCalls, setCalls,
                    hitValue, hitOf, storedBy, wrote, sets, logs, url, poolVars, writerVars >>

\* line 104: CacheStore.Set is called; the store serialises the snapshot as
\* the caller now reads it, before anything reaches the store
SetBegin(r) ==
    /\ pc[r] = "toset"
    /\ \E d \in View(r) : respCache' = [respCache EXCEPT ![r].Data = d]
    /\ setCalls' = [setCalls EXCEPT ![r] = @ + 1]
    /\ pc' = [pc EXCEPT ![r] = "setting"]
    /\ UNCHANGED << options, handler, cacheKey, sink, aborted, body, store, m, call, timers, fired,
                    got, shared, lookup, produced, nextCalls, hitValue, hitOf, storedBy,
                    wrote, sets, logs, url, poolVars, writerVars >>

\* lines 104-108: CacheStore.Set returns: the serialised snapshot has become
\* the entry of the key, or the call failed; a failure is logged
StoreSet(r) ==
    /\ pc[r] = "setting"
    /\ \E ok \in BOOLEAN :
        /\ IF ok
           THEN /\ store' = [store EXCEPT ![cacheKey[r]] = respCache[r]]
                /\ storedBy' = [storedBy EXCEPT ![cacheKey[r]] = r]
           ELSE UNCHANGED << store, storedBy >>
        /\ logs' = Printf(logs, options, ~ok, r, "set")
    /\ pc' = [pc EXCEPT ![r] = "return"]
    /\ UNCHANGED << options, handler, cacheKey, sink, aborted, body, respCache, m, call,
                    timers, fired, got, shared, lookup, produced, nextCalls, setCalls, hitValue,
                    hitOf, wrote, sets, url, poolVars, writerVars >>

\* line 55 at the return of line 60 or of line 109: the deferred
\* putResponseCache hands the pooled snapshot back, and gin goes on with the
\* chain
Return(r) ==
    /\ pc[r] = "return"
    /\ pool' = putResponseCache(pool, held[r])
    /\ held' = [held EXCEPT ![r] = NoObj]
    /\ puts' = [puts EXCEPT ![r] = @ + 1]
    /\ nextCalls' = [nextCalls EXCEPT ![r] = @ + ChainAfterReturn(aborted[r], @)]
    /\ pc' = [pc EXCEPT ![r] = "done"]
    /\ UNCHANGED << options, handler, cacheKey, sink, aborted, body, respCache, store, m,
                    call, timers, fired, got, shared, lookup, produced, setCalls, hitValue, hitOf,
                    storedBy, wrote, sets, logs, url, objs, handed, gets, writerVars >>

\* the store drops an entry whose CacheDuration has passed
Expire(k) ==
    /\ store[k] # None
    /\ store' = [store EXCEPT ![k] = None]
    /\ storedBy' = [storedBy EXCEPT ![k] = NoCall]
    /\ UNCHANGED << options, handler, pc, cacheKey, sink, aborted, body, respCache, m, call,
                    timers, fired, got, shared, lookup, produced, nextCalls, setCalls, hitValue,
                    hitOf, wrote, sets, logs, url, poolVars, writerVars >>

Next ==
    \/ \E r \in Reqs : BypassBegin(r)
    \/ \E r \in Reqs : BypassEnd(r)
    \/ \E r \in Reqs : Begin(r)
    \/ \E r \in Reqs : LookupHit(r)
    \/ \E r \in Reqs : HitReply(r)
    \/ \E r \in Reqs : LookupMiss(r)
    \/ \E r \in Reqs : DirectBegin(r)
    \/ \E r \in Reqs : DirectEnd(r)
    \/ \E r \in Reqs : DoLead(r)
    \/ \E r \in Reqs : DoJoin(r)
    \/ \E r \in Reqs : LeaderEnd(r)
    \/ \E t \in Timers : ForgetFire(t)
    \/ \E r \in Reqs : LeaderFill(r)
    \/ \E r \in Reqs : LeaderSet(r)
    \/ \E r \in Reqs : LeaderGrow(r)
    \/ \E r \in Reqs : LeaderCopy(r)
    \/ \E r \in Reqs : LeaderSent(r)
    \/ \E r \in Reqs : FollowerFill(r)
    \/ \E r \in Reqs : FollowerReplay(r)
    \/ \E r \in Reqs : FollowerSent(r)
    \/ \E l, f \in Reqs : Crash(l, f)
    \/ \E r \in Reqs : SetBegin(r)
    \/ \E r \in Reqs : StoreSet(r)
    \/ \E r \in Reqs : Return(r)
    \/ \E k \in Keys : Expire(k)

Spec == Init /\ [][Next]_vars

\* ------------------------------------------------- the snapshot pool

\* an entry as an earlier run of the service left it in the store
Kept == [Status |-> 200, Header |-> [h \in HeaderNames |-> << "a", "b" >>], Data |-> << 1 >>]

\* Cache(handler, options) over a store that outlives the process (line 57
\* reads options.CacheStore, which the caller made): the entry of one key is
\* there already
InitPool ==
    /\ options \in [DisableSingleFlight : BOOLEAN, SingleflightForgetTime : {0, 1},
                     Logger : {FALSE}]
    /\ handler = "Cache"
    /\ Idle
    /\ store = [k \in Keys |-> IF k = "k1" THEN Kept ELSE None]

SpecPool == InitPool /\ [][Next]_vars

\* ------------------------------------------------- an earlier leader

\* The middleware has served a request for k1 before the requests that are
\* followed come in: that request led an execution and returned, its call
\* has left the group (doCall), and the entry it stored is no longer there
\* (its Set failed, or CacheDuration has passed).  When a forget time is
\* set its forget goroutine (lines 85-88) is still asleep: nothing stops it
\* when its leader returns.
Earlier == Timer(NoCall, "k1")

InitStale ==
    /\ options \in [DisableSingleFlight : BOOLEAN, SingleflightForgetTime : {0, 1},
                     Logger : {FALSE}]
    /\ handler = "Cache"
    /\ AtRest
    /\ timers = IF UseSingleFlight(options) /\ ForgetEnabled(options) THEN {Earlier} ELSE {}
    /\ store = [k \in Keys |-> None]

SpecStale == InitStale /\ [][Next]_vars

\* ---------------------------------------------------------- the logger

\* Cache(handler, options) with or without a logger, without forget goroutines
InitLog ==
    /\ options \in [DisableSingleFlight : BOOLEAN, SingleflightForgetTime : {0},
                     Logger : BOOLEAN]
    /\ handler = "Cache"
    /\ Fresh

NextLog ==
    \/ \E r \in Reqs : BypassBegin(r)
    \/ \E r \in Reqs : BypassEnd(r)
    \/ \E r \in Reqs : Begin(r)
    \/ \E r \in Reqs : LookupHit(r)
    \/ \E r \in Reqs : HitReply(r)
    \/ \E r \in Reqs : LookupMiss(r)
    \/ \E r \in Reqs : DirectBegin(r)
    \/ \E r \in Reqs : DirectEnd(r)
    \/ \E r \in Reqs : DoLead(r)
    \/ \E r \in Reqs : DoJoin(r)
    \/ \E r \in Reqs : LeaderEnd(r)
    \/ \E r \in Reqs : LeaderFill(r)
    \/ \E r \in Reqs : LeaderSet(r)
    \/ \E r \in Reqs : LeaderGrow(r)
    \/ \E r \in Reqs : LeaderCopy(r)
    \/ \E r \in Reqs : LeaderSent(r)
    \/ \E r \in Reqs : FollowerFill(r)
    \/ \E r \in Reqs : FollowerReplay(r)
    \/ \E r \in Reqs : FollowerSent(r)
    \/ \E l, f \in Reqs : Crash(l, f)
    \/ \E r \in Reqs : SetBegin(r)
    \/ \E r \in Reqs : StoreSet(r)
    \/ \E r \in Reqs : Return(r)
    \/ \E k \in Keys : Expire(k)

SpecLog == InitLog /\ [][NextLog]_vars

\* ------------------------------------------------ the built-in key functions

\* line 46: handler(c) of a middleware made by CacheByURI or CacheByPath
KeyFunction(h, u) == IF h = "CacheByURI" THEN CacheByURI(u) ELSE CacheByPath(u)

\* the targets are interchangeable, and request 1 has the first query
URLsOf(r) == IF r = 1 THEN {u \in URLs : u.query = "x=1"} ELSE URLs

\* lines 46-55 with a built-in key function
URLBegin(r) ==
    \E u \in URLsOf(r) :
        /\ KeyFunction(handler, u)[2]
        /\ GetSnapshot(r, KeyFunction(handler, u)[1])
        /\ url' = [url EXCEPT ![r] = u]

\* CacheByURI(options) or CacheByPath(options), coalescing, no forget goroutines
InitURL ==
    /\ options = [DisableSingleFlight |-> FALSE, SingleflightForgetTime |-> 0,
                  Logger |-> FALSE]
    /\ handler \in {"CacheByURI", "CacheByPath"}
    /\ Fresh

NextURL ==
    \/ \E r \in Reqs : URLBegin(r)
    \/ \E r \in Reqs : LookupHit(r)
    \/ \E r \in Reqs : HitReply(r)
    \/ \E r \in Reqs : LookupMiss(r)
    \/ \E r \in Reqs : DoLead(r)
    \/ \E r \in Reqs : DoJoin(r)
    \/ \E r \in Reqs : LeaderEnd(r)
    \/ \E r \in Reqs : LeaderFill(r)
    \/ \E r \in Reqs : LeaderSet(r)
    \/ \E r \in Reqs : LeaderGrow(r)
    \/ \E r \in Reqs : LeaderCopy(r)
    \/ \E r \in Reqs : LeaderSent(r)
    \/ \E r \in Reqs : FollowerFill(r)
    \/ \E r \in Reqs : FollowerReplay(r)
    \/ \E r \in Reqs : FollowerSent(r)
    \/ \E l, f \in Reqs : Crash(l, f)
    \/ \E r \in Reqs : SetBegin(r)
    \/ \E r \in Reqs : StoreSet(r)
    \/ \E r \in Reqs : Return(r)
    \/ \E k \in Keys : Expire(k)

SpecURL == InitURL /\ [][NextURL]_vars

\* ------------------------------------------------ the capture writer

\* the variables of the requests, the store, the group, the pool and the log
requestVars ==
    << options, handler, pc, cacheKey, sink, aborted, body, respCache, store, m, call,
       timers, fired, got, shared, lookup, produced, nextCalls, setCalls, hitValue, hitOf,
       storedBy, wrote, sets, logs, url, poolVars >>

\* lines 159-162: Write(b); the wrapped writer's result, error or not, is
\* returned after the buffer took b
Write(b, err) ==
    /\ cw.ResponseWriter # NoWriter
    /\ Len(wire[cw.ResponseWriter]) < MaxWrites
    /\ cw' = [cw EXCEPT !.body = BufferWrite(@, b)]
    /\ wire' = [wire EXCEPT ![cw.ResponseWriter] = Append(@, [op |-> "Write", data |-> b])]
    /\ calls' = Append(calls, [op |-> "Write", data |-> b])
    /\ last' = [op |-> "Write", arg |-> cw.ResponseWriter, err |-> err]
    /\ UNCHANGED requestVars

\* lines 164-167: WriteString(s)
WriteString(s, err) ==
    /\ cw.ResponseWriter # NoWriter
    /\ Len(wire[cw.ResponseWriter]) < MaxWrites
    /\ cw' = [cw EXCEPT !.body = BufferWrite(@, Bytes(s))]
    /\ wire' = [wire EXCEPT ![cw.ResponseWriter] =
                    Append(@, [op |-> "WriteString", data |-> Bytes(s)])]
    /\ calls' = Append(calls, [op |-> "WriteString", data |-> Bytes(s)])
    /\ last' = [op |-> "WriteString", arg |-> cw.ResponseWriter, err |-> err]
    /\ UNCHANGED requestVars

\* lines 169-172: reset(writer)
resetWriter(writer) ==
    /\ cw' = [body |-> << >>, ResponseWriter |-> writer]
    /\ calls' = << >>
    /\ last' = [op |-> "reset", arg |-> writer, err |-> FALSE]
    /\ UNCHANGED << requestVars, wire >>

NextWriter ==
    \/ \E b \in Chunks, err \in BOOLEAN : Write(b, err)
    \/ \E s \in Strings, err \in BOOLEAN : WriteString(s, err)
    \/ \E writer \in Writers : resetWriter(writer)

\* the capture writer does not read the options: one setting is followed
InitWriter == Init /\ options.DisableSingleFlight /\ options.SingleflightForgetTime = 0

SpecWriter == InitWriter /\ [][NextWriter]_vars

\* ------------------------------------------------------------ vocabulary

RECURSIVE SumOver(_, _)
SumOver(f, S) ==
    IF S = {} THEN 0
    ELSE LET x == CHOOSE y \in S : TRUE IN f[x] + SumOver(f, S \ {x})

Coalescing == ~options.DisableSingleFlight
Entered(r) == got[r] # NoCall
Leader(r) == got[r] = r
Follower(r) == got[r] # NoCall /\ got[r] # r
PastDo(r) == pc[r] \in {"toset", "setting", "return", "done"}

\* the Write of the request's respondWithCache, if it made one, did not fail
Delivered(r) == wrote[r] # "error"
NoForget == options.SingleflightForgetTime = 0

\* the requests that have started with key k
Started(k) == {r \in Reqs : pc[r] # "idle" /\ lookup[r] # "bypass" /\ cacheKey[r] = k}

\* the requests that have called sfGroup.Do with key k
InGroup(k) == {r \in Reqs : Entered(r) /\ cacheKey[r] = k}

\* the requests whose call is running the handler for key k
Producers(k) == CallsOf(k, "running")

\* the leaders whose forget goroutine has called Forget for key k; NoCall
\* stands for the leader of an earlier request
FiredFor(k) ==
    {t.by : t \in {u \in fired : u.key = k}}

\* ------------------------------------------------------------------- C1

\* C1 as stated: with coalescing enabled and no forget duration, requests
\* with the same key that overlap (none has finished, so each started before
\* the first finished, and the key was never stored) invoke the handler at
\* most once in total, and exactly once when all are past the handler stage.
C1_OnceForAnyInterleaving ==
    (Coalescing /\ NoForget) =>
        \A k \in Keys :
            (\A r \in Started(k) : pc[r] # "done") =>
                /\ SumOver(nextCalls, Started(k)) <= 1
                /\ (Started(k) # {} /\ \A r \in Started(k) : pc[r] = "toset")
                       => SumOver(nextCalls, Started(k)) = 1

\* C1 amended: with coalescing enabled and no forget duration, the requests
\* that enter the coalescing group for a key before the first execution for
\* that key has completed invoke the handler exactly once in total, and a
\* request that joined an execution never invokes the handler.
C1_OnceWhileInFlight ==
    (Coalescing /\ NoForget) =>
        /\ \A k \in Keys :
              (InGroup(k) # {} /\ CallsOf(k, "done") = {})
                  => SumOver(nextCalls, InGroup(k)) = 1
        /\ \A r \in Reqs : Follower(r) => nextCalls[r] = 0

\* a follower has gone through the whole closure behind a leader, no forget
C1_Witness ==
    /\ Coalescing /\ NoForget
    /\ \E r \in Reqs : Follower(r) /\ pc[r] = "done" /\ pc[got[r]] = "done"

\* ------------------------------------------------------------------- C2

\* C2 as stated: with coalescing enabled, whatever the forget duration, at
\* most one producer body is executing for any key.
C2_OneProducerAnyForget ==
    Coalescing => \A k \in Keys : Cardinality(Producers(k)) <= 1

\* C2 amended: with coalescing enabled, the producer bodies executing for a
\* key are at most one more than the forget timers that have fired for that
\* key: at most one with no forget duration.
C2_OneProducerPerForget ==
    Coalescing =>
        \A k \in Keys :
            /\ Cardinality(Producers(k)) <= 1 + Cardinality(FiredFor(k))
            /\ NoForget => Cardinality(Producers(k)) <= 1

\* a producer is executing while another request of its key waits for it
C2_Witness ==
    /\ Coalescing /\ NoForget
    /\ \E r, q \in Reqs :
          pc[r] = "running" /\ Leader(r) /\ pc[q] = "waiting" /\ got[q] = r

\* ------------------------------------------------------------------- C3

\* C3: a follower that has returned from the group got the result of a
\* completed execution and its own sink holds the status and, unless its
\* client's connection failed the write, the body that the leader's handler
\* produced, written once; the sink of a request that has not replied yet is
\* untouched.
C3_FollowerRepliesLeaderOutput ==
    /\ \A r \in Reqs :
          (Follower(r) /\ PastDo(r)) =>
              /\ call[got[r]].state = "done"
              /\ sink[r].status = produced[got[r]].Status
              /\ Delivered(r) => sink[r].body = produced[got[r]].Data
    /\ \A q \in Reqs : pc[q] \in {"idle", "lookup", "missed", "waiting"} => sink[q] = NewSink

\* ------------------------------------------------------------------- C4

\* C4: Do reports shared = true to every follower and false to the leader,
\* the leader makes no replay write, and the leader's client holds the body
\* once, as the handler wrote it.
C4_SharedOnlyForFollowers ==
    \A r \in Reqs :
        (Entered(r) /\ PastDo(r)) =>
            /\ shared[r] = Follower(r)
            /\ Leader(r) => wrote[r] = "none" /\ sink[r].body = produced[r].Data

\* ------------------------------------------------------------------- C5

\* C5: once every request of a key has returned, CacheStore.Set was called
\* as many times for the key as the handler was invoked, and no follower
\* called it.
C5_OneSetPerExecution ==
    /\ \A k \in Keys :
          (\A r \in Started(k) : pc[r] = "done") =>
              SumOver(setCalls, Started(k)) = SumOver(nextCalls, Started(k))
    /\ \A r \in Reqs : Follower(r) => setCalls[r] = 0

\* ------------------------------------------------------------------- C6

\* C6: a request whose lookup hit does not invoke the handler, writes
\* nothing to the store and never enters the coalescing group; once it has
\* replied, its sink holds the stored status and the stored body (a prefix
\* of it when its client's connection failed the write) and the pipeline is
\* aborted, and it returns only after replying.
C6_HitRepliesStored ==
    \A r \in Reqs :
        lookup[r] = "hit" =>
            /\ hitValue[r] # None
            /\ nextCalls[r] = 0
            /\ setCalls[r] = 0
            /\ ~Entered(r)
            /\ pc[r] \in {"reply", "return", "done", "killed"}
            /\ pc[r] \in {"return", "done"} => wrote[r] # "none"
            /\ wrote[r] = "none" => sink[r] = NewSink /\ ~aborted[r]
            /\ wrote[r] # "none" =>
                  /\ sink[r].status = hitValue[r].Status
                  /\ aborted[r]
                  /\ Delivered(r) => sink[r].body = hitValue[r].Data
                  /\ ~Delivered(r) =>
                        /\ Len(sink[r].body) < Len(hitValue[r].Data)
                        /\ sink[r].body = SubSeq(hitValue[r].Data, 1, Len(sink[r].body))

\* a request hit an entry whose status is not the sink's initial status
C6_Witness ==
    \E r \in Reqs :
        /\ lookup[r] = "hit" /\ hitValue[r].Status # NewSink.status
        /\ Delivered(r) /\ pc[r] = "done"

\* ------------------------------------------------------------------- C7

\* C7: after a replay, every header name of the snapshot has on the sink
\* all the values it has in the snapshot, in order.
C7_ReplayKeepsEveryValue ==
    \A r \in Reqs :
        /\ (lookup[r] = "hit" /\ wrote[r] # "none") =>
              \A h \in HeaderNames :
                  hitValue[r].Header[h] # <<>> => sink[r].header[h] = hitValue[r].Header[h]
        /\ (Follower(r) /\ PastDo(r)) =>
              \A h \in HeaderNames :
                  respCache[r].Header[h] # <<>> => sink[r].header[h] = respCache[r].Header[h]

\* ------------------------------------------------------------------- C8

\* the step in which request s gets the answer of its lookup
LooksUp(s) == pc[s] = "lookup" /\ pc'[s] \in {"reply", "missed"}

\* the step in which request s replies from the cache
Replies(s) == pc[s] = "reply" /\ pc'[s] = "return"

\* C8: when a request looks up a key whose entry was stored by a request
\* that ran the handler alone (the Set succeeded, the entry has not expired)
\* and the lookup does not fail, then that first request invoked the handler
\* once and the entry equals the handler's output, and the second request
\* hits, does not invoke the handler and, when it replies, replies the
\* status and, unless its client's connection fails the write, the body the
\* first request's client got.
C8_MissThenHit ==
    [][ \A s \in Reqs :
          /\ LooksUp(s) =>
                LET k == cacheKey[s]
                    r == storedBy[k]
                IN  (r # NoCall /\ ~shared[r] /\ lookup'[s] # "error") =>
                        /\ nextCalls[r] = 1
                        /\ store[k] = produced[r]
                        /\ lookup'[s] = "hit"
                        /\ hitValue'[s] = produced[r]
                        /\ hitOf'[s] = r
                        /\ nextCalls'[s] = 0
                        /\ pc'[s] = "reply"
          /\ (Replies(s) /\ hitOf[s] # NoCall /\ ~shared[hitOf[s]]) =>
                /\ nextCalls'[s] = 0
                /\ sink'[s].status = sink[hitOf[s]].status
                /\ wrote'[s] = "ok" => sink'[s].body = sink[hitOf[s]].body ]_vars

\* a request has hit the entry stored by a request that ran the handler alone
C8_Witness ==
    \E r, s \in Reqs :
        /\ r # s /\ lookup[s] = "hit" /\ hitOf[s] = r
        /\ ~shared[r] /\ nextCalls[r] = 1 /\ hitValue[s] = produced[r]
        /\ wrote[s] = "ok" /\ pc[s] = "done"

\* ------------------------------------------------------------------- C9

\* C9: with coalescing disabled the group is never entered, no request
\* waits, a request that missed can always go on to the handler, and the
\* requests of a key that all missed have invoked it once each.
C9_DisabledRunsEveryHandler ==
    options.DisableSingleFlight =>
        /\ \A k \in Keys : m[k] = NoCall
        /\ \A r \in Reqs :
              /\ ~Entered(r)
              /\ pc[r] \notin {"waiting", "returned"}
              /\ pc[r] = "missed" => ENABLED DirectBegin(r)
        /\ \A k \in Keys :
              (\A r \in Started(k) : lookup[r] # "hit" /\ pc[r] \in {"running", "toset", "setting", "return", "done"})
                  => SumOver(nextCalls, Started(k)) = Cardinality(Started(k))

\* two requests of one key run the handler at the same time, coalescing off
C9_Witness ==
    /\ options.DisableSingleFlight
    /\ \E r, q \in Reqs :
          r # q /\ cacheKey[r] = cacheKey[q] /\ pc[r] = "running" /\ pc[q] = "running"

\* ------------------------------------------------------------------ C10

\* the step in which request r calls sfGroup.Do
Enters(r) == got[r] = NoCall /\ got'[r] # NoCall

\* the forget goroutine started by leader L has called Forget
OwnTimerFired(L) == Timer(L, cacheKey[L]) \notin timers

\* C10 (as stated): with a positive forget duration, a request that calls
\* sfGroup.Do while a leader of its key is still running the handler becomes
\* a leader and invokes the handler itself when that leader's forget timer
\* has fired, and joins that leader's execution as a follower, invoking
\* nothing, when that leader's forget timer has not fired yet.
C10_ForgetTimer ==
    [][ (Coalescing /\ ~NoForget) =>
          \A r \in Reqs :
              Enters(r) =>
                  \A L \in Producers(cacheKey[r]) :
                      /\ OwnTimerFired(L) =>
                            /\ got'[r] = r
                            /\ pc'[r] = "running"
                            /\ nextCalls'[r] = nextCalls[r] + 1
                      /\ ~OwnTimerFired(L) =>
                            /\ got'[r] = L
                            /\ pc'[r] = "waiting"
                            /\ nextCalls'[r] = nextCalls[r] ]_vars

\* ------------------------------------------------------------------ C11

\* the step is one of the closure of request r: it moves the request on, or
\* it is one more Header().Set of the replay loop (line 216)
StepOf(r) == (pc'[r] # pc[r] \/ sets'[r] # sets[r]) /\ pc'[r] # "killed"

\* C11: every step of a request whose key function returned shouldCache =
\* false leaves the store, the coalescing group, the forget timers and the
\* request's capture buffer (its writer is not wrapped) unchanged, calls no
\* Get and no Set, and the request ends having invoked the next stage once,
\* its output written to its own sink only.
C11_BypassFrame ==
    [][ \A r \in Reqs :
          (StepOf(r) /\ lookup'[r] = "bypass") =>
              /\ UNCHANGED << store, storedBy, m, call, timers, fired, body, respCache,
                              setCalls, aborted, got, hitValue, hitOf, wrote, sets, pool, objs,
                              held,
                              handed, gets, puts, logs, handler, url, cw, wire,
                              calls, last >>
              /\ \A q \in Reqs \ {r} : sink'[q] = sink[q] /\ nextCalls'[q] = nextCalls[q]
              /\ pc'[r] = "done" =>
                    /\ nextCalls'[r] = 1
                    /\ sink'[r].body = produced'[r].Data
                    /\ sink'[r].status = produced'[r].Status ]_vars

\* a bypassing request has returned while another request runs the handler
\* behind the cache
C11_Witness ==
    \E r, q \in Reqs :
        lookup[r] = "bypass" /\ pc[r] = "done" /\ pc[q] = "running"

\* ------------------------------------------------------------------ C12

\* C12: a step of a request with key k changes neither the store entry nor
\* the slot of another key, a hit replies the entry of k, the execution a
\* request joins, waits for and takes its result from is one for k, and a
\* forget goroutine changes the slot of no key but its own.
C12_KeyIsolation ==
    [][ /\ \A r \in Reqs :
              (StepOf(r) /\ lookup'[r] # "bypass") =>
                  LET k == cacheKey'[r]
                  IN  /\ \A k2 \in Keys \ {k} :
                            /\ store'[k2] = store[k2]
                            /\ storedBy'[k2] = storedBy[k2]
                            /\ m'[k2] = m[k2]
                      /\ (lookup[r] = "none" /\ lookup'[r] = "hit") => hitValue'[r] = store[k]
                      /\ got'[r] # NoCall => cacheKey'[got'[r]] = k
        /\ \A t \in timers \ timers' :
              \A k2 \in Keys \ {t.key} : m'[k2] = m[k2] ]_vars

\* the forget timer of one key has fired while a leader of another key is
\* running and registered
C12_Witness ==
    \E r, q \in Reqs :
        /\ cacheKey[r] # cacheKey[q] /\ Leader(r) /\ Leader(q)
        /\ r \in FiredFor(cacheKey[r])
        /\ pc[q] = "running" /\ m[cacheKey[q]] = q

\* ------------------------------------------------------------------ C13

\* C13: the downstream handler runs at most once for a request; when the
\* request is finished it has run exactly once for a bypassing request, a
\* miss without coalescing and a leader, and not at all for a hit and for a
\* follower.
C13_HandlerOncePerRequest ==
    \A r \in Reqs :
        /\ nextCalls[r] <= 1
        /\ pc[r] = "done" =>
              nextCalls[r] = IF lookup[r] = "hit" \/ Follower(r) THEN 0 ELSE 1

\* a follower and its leader have both finished
C13_Witness ==
    \E r \in Reqs :
        Follower(r) /\ pc[r] = "done" /\ pc[got[r]] = "done" /\ nextCalls[got[r]] = 1

\* ------------------------------------------------------------------ C14

\* C14: the snapshot getResponseCache hands out has an empty body and an
\* empty header; a request that has returned from the cached path has made
\* one get and one put, on the hit, the miss and the lookup-error path, and
\* holds nothing; a request in flight on the miss path has made one get and
\* no put; no snapshot is held by two requests, and a held snapshot is not
\* free in the pool.
C14_PoolDiscipline ==
    /\ \A r \in Reqs :
        /\ gets[r] = 1 => handed[r].Data = <<>> /\ handed[r].Header = EmptyHeader
        /\ gets[r] = (IF pc[r] # "idle" /\ lookup[r] # "bypass" THEN 1 ELSE 0)
        /\ puts[r] = (IF gets[r] = 1 /\ pc[r] = "done" THEN 1 ELSE 0)
        /\ (held[r] # NoObj) = (gets[r] = 1 /\ puts[r] = 0)
        /\ held[r] # NoObj => held[r] \notin pool
    /\ \A r, q \in Reqs : held[r] # NoObj /\ held[r] = held[q] => r = q

\* a request that hit has put its snapshot back with the entry in it, and a
\* request whose lookup did not hit holds that snapshot
C14_Witness ==
    \E r, q \in Reqs :
        /\ r # q /\ lookup[r] = "hit" /\ pc[r] = "done" /\ puts[r] = 1
        /\ lookup[q] \in {"miss", "error"} /\ held[q] # NoObj
        /\ objs[held[q]].Status # 0

\* ------------------------------------------------------------------ C15

\* C15: a lookup that fails leaves the request where a miss leaves it and is
\* reported exactly when a logger is set, a miss is not reported; the request
\* then runs the handler or joins an execution, has a reply (unless its
\* client's connection failed the write of it) and calls Set; a
\* Set that fails is reported exactly when a logger is set and the step
\* leaves the reply as it was; without a logger nothing is ever reported.
C15_StoreFailuresNonFatal ==
    [][ /\ \A r \in Reqs :
            /\ (lookup[r] = "none" /\ lookup'[r] = "error") =>
                  /\ pc'[r] = "missed" /\ sink'[r] = sink[r]
                  /\ logs' = IF options.Logger THEN logs \cup {<< r, "get" >>} ELSE logs
            /\ (lookup[r] = "none" /\ lookup'[r] = "miss") =>
                  /\ pc'[r] = "missed" /\ sink'[r] = sink[r]
                  /\ logs' = logs
            /\ (pc[r] = "setting" /\ pc'[r] = "return") =>
                  /\ sink'[r] = sink[r]
                  /\ Delivered(r) => sink[r].body # <<>>
                  /\ setCalls'[r] = 1
                  /\ Follower(r) \/ nextCalls'[r] = 1
                  /\ logs' = IF options.Logger /\ storedBy'[cacheKey[r]] # r
                             THEN logs \cup {<< r, "set" >>} ELSE logs
        /\ ~options.Logger => logs' = {} ]_vars

\* with a logger set, a request whose lookup failed and whose Set failed has
\* finished with both reported, and another request missed without a report
C15_Witness ==
    \E r, q \in Reqs :
        /\ pc[r] = "done" /\ lookup[r] = "error"
        /\ {<< r, "get" >>, << r, "set" >>} \subseteq logs
        /\ lookup[q] = "miss" /\ << q, "get" >> \notin logs

\* ------------------------------------------------------------------ C16

\* C16 (as stated): under CacheByPath two requests with the same path and
\* different queries have the same key, and when one of them has joined the
\* execution of the other the handler has run once for both and their
\* clients have the same reply; under CacheByURI they have different keys
\* and neither joins the other.
C16_PathCoalescesURIDoesNot ==
    \A r, q \in Reqs :
        (/\ r # q /\ pc[r] = "done" /\ pc[q] = "done"
         /\ url[r].path = url[q].path /\ url[r].query # url[q].query) =>
            /\ handler = "CacheByPath" =>
                  /\ cacheKey[r] = cacheKey[q]
                  /\ got[q] = r =>
                        /\ nextCalls[r] + nextCalls[q] = 1
                        /\ (Delivered(r) /\ Delivered(q)) => sink[r] = sink[q]
            /\ handler = "CacheByURI" =>
                  /\ cacheKey[r] # cacheKey[q]
                  /\ got[q] # r

\* ------------------------------------------------------------------ C17

\* a step of the closure of some request
RequestStep ==
    \E r \in Reqs :
        \/ BypassEnd(r) \/ LookupHit(r) \/ HitReply(r) \/ LookupMiss(r)
        \/ DirectBegin(r) \/ DirectEnd(r) \/ DoLead(r) \/ DoJoin(r) \/ LeaderEnd(r)
        \/ LeaderFill(r) \/ LeaderSet(r) \/ LeaderGrow(r) \/ LeaderCopy(r)
        \/ LeaderSent(r) \/ FollowerFill(r) \/ FollowerReplay(r) \/ FollowerSent(r)
        \/ SetBegin(r) \/ StoreSet(r) \/ Return(r)

\* C17 (as stated): a request that has started and has not completed can
\* always go on: as long as some request is in flight, a step of some
\* request in flight is possible (a follower's leader can finish, a released
\* follower and a forgotten leader can reply and return).
C17_EveryRequestCompletes ==
    (\E r \in Reqs : pc[r] \notin {"idle", "done"}) => ENABLED RequestStep

\* ------------------------------------------------------------------ C18

RECURSIVE Concat(_)
Concat(cs) == IF cs = << >> THEN << >> ELSE Head(cs).data \o Concat(Tail(cs))

\* C18: the buffer of the capture is the concatenation of what was passed to
\* Write and WriteString since the last reset, the wrapped writer received
\* those same calls last and in that order, whether or not it reported an
\* error, and right after reset(writer) the buffer is empty and the capture
\* wraps writer.
C18_DualWrite ==
    /\ cw.body = Concat(calls)
    /\ cw.ResponseWriter # NoWriter =>
          LET got_ == wire[cw.ResponseWriter]
          IN  /\ Len(calls) <= Len(got_)
              /\ SubSeq(got_, Len(got_) - Len(calls) + 1, Len(got_)) = calls
    /\ last.op = "reset" => cw.body = << >> /\ cw.ResponseWriter = last.arg
    /\ last.op \in {"Write", "WriteString"} => cw.ResponseWriter = last.arg

\* a Write and a WriteString went through after the wrapped writer had been
\* used before the reset, and the last one reported an error
C18_Witness ==
    /\ Len(calls) = 2 /\ calls[1].op # calls[2].op
    /\ calls[1].data # << >> /\ calls[2].data # << >>
    /\ cw.ResponseWriter # NoWriter
    /\ Len(wire[cw.ResponseWriter]) > Len(calls)
    /\ last.err

\* ------------------------------------------------------------------ C19

\* the request whose handler run gave request r its result
ProducerOf(r) == IF got[r] = NoCall THEN r ELSE got[r]

\* C19 (as stated): once the handler of a leader has returned, its capture
\* holds the status, the header and the body the handler produced and keeps
\* them; the snapshot of every caller that has returned from the group, and
\* every stored entry, is exactly what the handler run behind it produced.
C19_CaptureStable ==
    /\ \A l \in Reqs :
          (Leader(l) /\ call[l].state = "done") =>
              /\ body[l] = produced[l].Data
              /\ sink[l].header = produced[l].Header
              /\ sink[l].status = produced[l].Status
    /\ \A r \in Reqs :
          (Entered(r) /\ PastDo(r)) => respCache[r] = produced[ProducerOf(r)]
    /\ \A k \in Keys :
          store[k] # None => store[k] = produced[ProducerOf(storedBy[k])]

\* ------------------------------------------------------------------ C20

\* C20 (as stated): a leader that is running the handler and whose own
\* forget timer has not fired (or that has none) is still registered for its
\* key, whatever the timers of earlier leaders of the key do, so that a
\* request arriving now joins it.
C20_TimerRemovesOwnSlotOnly ==
    \A l \in Reqs :
        (Leader(l) /\ pc[l] = "running" /\ (NoForget \/ Timer(l, cacheKey[l]) \in timers)) =>
            InFlight(m, cacheKey[l]) = l

====
